---- MODULE Spec2Model ----
(***************************************************************************)
(* ChittyAuth token lifecycle engine (TokenManager): provision, validate,  *)
(* refresh and revoke over a D1 table (tokens, auth_events) and the KV     *)
(* namespaces AUTH_TOKENS, AUTH_REVOCATIONS, AUTH_RATE_LIMITS.             *)
(*                                                                         *)
(* Every async method is cut at its awaited store calls: one step is the   *)
(* effect of the awaited store call followed by the synchronous code up to *)
(* the next awaited store call.  Date.now() is read where the code reads   *)
(* it.  All bindings of the deployment (AUTH_DB and the four KV            *)
(* namespaces) are bound, as in wrangler.toml and in the unit tests.       *)
(***************************************************************************)
EXTENDS Integers, Sequences, FiniteSets, TLC

VARIABLES
    now,        \* Date.now(), in milliseconds
    environment,\* env.ENVIRONMENT
    signingKey, \* this.signingKey, set by the constructor
    db,         \* D1 table tokens: token id -> row
    kvTokens,   \* KV AUTH_TOKENS: token hash -> [val, at, ttl]
    kvRevoked,  \* KV AUTH_REVOCATIONS: token hash -> [val, at, ttl]
    kvRate,     \* KV AUTH_RATE_LIMITS: <<token hash, windowStart>> -> [val, at, ttl]
    nextId,     \* number of token ids drawn so far by generateTokenId
    issued,     \* what callers hold: the tokens provision returned, with what was asked
    refreshed,  \* <<old token id, new token id>> of every replacement inserted by refresh
    revokedDone,\* the ids of the token rows whose revoke has returned
    pc,         \* per caller: the await the call is suspended at
    local       \* per caller: the call's arguments and local variables

vars == <<now, environment, signingKey, db, kvTokens, kvRevoked, kvRate, nextId,
          issued, refreshed, revokedDone, pc, local>>

-----------------------------------------------------------------------------
(* Bounds of the model *)

MaxTokens == 2      \* token ids generateTokenId may draw
MaxProvisions == 1  \* tokens provisioned by a caller (refresh provisions the others)
MaxRequests == 2    \* validations of one token (its request_count)
MaxNow == 1500      \* the clock stops here (ms)
TickMs == 500       \* the clock advances in steps of this many ms

(* Program constants *)

DefaultTokenExpiry == 3600      \* env.DEFAULT_TOKEN_EXPIRY as the unit tests configure it (s)
MarkerTtl == 7776000            \* 86400 * 90 seconds
RateWindow == 3600              \* seconds
AdminLimit == 10000
ServiceLimit == 5000
StandardLimit == 1000
BasicLimit == 100
ScopeSizeThreshold == 3

-----------------------------------------------------------------------------
(* Values *)

Procs == {"c1", "c2"}

NULL == "null"              \* a missing string (undefined / SQL NULL)
NoScope == <<"undefined">>  \* a missing scope array
NullInt == 0 - 1            \* a missing number (undefined / SQL NULL)
NoRow == [none |-> TRUE]    \* null result of a lookup

UnknownId == MaxTokens + 2  \* a token id no provision ever generates

ChittyIds == {"03-1-USA-0001-P-251-3-82"}
Services == {"chittyid"}
Scopes == {<<"chittyid:read">>}
\* Scope arrays of every tier: empty, one and two scopes, more than three, a
\* service wildcard before an admin wildcard, a wildcard in a long array
ScopeSets ==
    {<< >>,
     <<"chittyid:read">>,
     <<"chittyid:read", "chittyid:generate">>,
     <<"chittyid:read", "chittyid:generate", "chittyid:validate", "chittyid:audit">>,
     <<"service:*", "admin:*">>,
     <<"chittyid:read", "chittyid:generate", "chittyid:validate", "service:*">>,
     <<"admin:*", "chittyid:read", "chittyid:generate", "chittyid:validate">>}
ExpiresIns == {1, 2}
Reasons == {"Manual revocation", "User requested"}
Environments == {NULL, "production", "test", "dev", "development"}

-----------------------------------------------------------------------------
(* Configuration *)

TestSigningKey == "test-signing-key-for-unit-tests-only"
FallbackKey == "dev-signing-key-change-in-production"

\* this.signingKey = env.TOKEN_SIGNING_KEY || 'dev-signing-key-change-in-production'
constructor(key) == IF key = NULL THEN FallbackKey ELSE key

-----------------------------------------------------------------------------
(* Signer and token codec *)

\* HMAC-SHA256 of `${tokenId}:${chittyId}:${service}:${timestamp}`, truncated
signPayload(tokenId, chittyId, service, timestamp) ==
    <<"hmac", signingKey, tokenId, chittyId, service, timestamp>>

\* 'ca_live_' for production, else `ca_${env}_` with env defaulting to 'live'
envPrefix(e) ==
    LET env == IF e = NULL THEN "live" ELSE e
    IN  IF env = "production" THEN <<"ca", "live">> ELSE <<"ca", env>>

\* A token string built without the token id
generateToken_NoId(e, tokenId, chittyId, service, timestamp) ==
    [prefix |-> envPrefix(e),
     tokenId |-> UnknownId,
     ts |-> timestamp,
     sig |-> signPayload(UnknownId, chittyId, service, timestamp)]

\* prefix + base64url(tokenId_timestamp_signature)
generateToken(e, tokenId, chittyId, service, timestamp) ==
    [prefix |-> envPrefix(e),
     tokenId |-> tokenId,
     ts |-> timestamp,
     sig |-> signPayload(tokenId, chittyId, service, timestamp)]

ValidPrefixes == {<<"ca", "live">>, <<"ca", "test">>, <<"ca", "dev">>, <<"svc">>}

isValidTokenFormat(token) == token.prefix \in ValidPrefixes

\* A digest that is the token string itself
hashToken_Plain(token) == <<"plain", token>>

\* SHA-256 hex digest of the token string: one-way, collision free here
hashToken(token) == <<"sha256", token>>

\* A string that is no token, and a well-formed token that was never issued
BadToken == [prefix |-> <<"invalid-token">>, tokenId |-> UnknownId, ts |-> 0,
             sig |-> signPayload(UnknownId, "x", "x", 0)]
ForgedToken == [prefix |-> <<"ca", "live">>, tokenId |-> UnknownId, ts |-> 0,
                sig |-> signPayload(UnknownId, "x", "x", 0)]

-----------------------------------------------------------------------------
(* Encodings *)

JSONStringify(v) == <<"json", v>>
JSONParse(s) == s[2]

\* (n).toString() and parseInt
numToString(n) == <<"str", n>>
parseInt(s) == s[2]

\* new Date(ms).toISOString()
toISOString(ms) == <<"iso", ms>>

\* a || b on numbers: undefined and 0 are falsy
OrElse(a, b) == IF a = NullInt \/ a = 0 THEN b ELSE a

-----------------------------------------------------------------------------
(* Cache store: get / put with expirationTtl / delete *)

\* An entry put at time `at` with expirationTtl `ttl` seconds is readable while
\* now < at + ttl * 1000
KVHas(kv, k) == k \in DOMAIN kv /\ (now - kv[k].at) \div 1000 < kv[k].ttl

KVGet(kv, k) == IF KVHas(kv, k) THEN kv[k].val ELSE NoRow

KVPut(kv, k, v, ttl) ==
    [x \in DOMAIN kv \cup {k} |->
        IF x = k THEN [val |-> v, at |-> now, ttl |-> ttl] ELSE kv[x]]

KVDelete(kv, k) == [x \in DOMAIN kv \ {k} |-> kv[x]]

-----------------------------------------------------------------------------
(* Rate limit policy *)

Includes(scope, s) == \E i \in 1 .. Len(scope) : scope[i] = s

\* A tier selection that tests the service wildcard first
getRateLimit_ServiceFirst(scope) ==
    IF Includes(scope, "service:*") THEN ServiceLimit
    ELSE IF Includes(scope, "admin:*") THEN AdminLimit
    ELSE IF Len(scope) > ScopeSizeThreshold THEN StandardLimit
    ELSE BasicLimit

getRateLimit(scope) ==
    IF Includes(scope, "admin:*") THEN AdminLimit
    ELSE IF Includes(scope, "service:*") THEN ServiceLimit
    ELSE IF Len(scope) > ScopeSizeThreshold THEN StandardLimit
    ELSE BasicLimit

-----------------------------------------------------------------------------
(* Audit log *)

EventTypes == {"token_provision", "token_validated", "token_validation_failed",
               "token_refreshed", "token_revoked"}

\* The auth_events row of an event object: absent fields are NULL
Event(eventType, tokenId, chittyId, service, success, error) ==
    [eventType |-> eventType, tokenId |-> tokenId, chittyId |-> chittyId,
     service |-> service, success |-> success, error |-> error]

\* INSERT INTO auth_events (...) and AUTH_AUDIT.put(`event:${eventId}`, ...).
\* The log is append-only and the engine never reads it: the rows a call
\* appends are kept with the call, l.events, until the caller takes the result.
logAuditEvent(l, event) == [l EXCEPT !.events = Append(@, event)]

-----------------------------------------------------------------------------
(* Calls *)

NoToken == [prefix |-> << >>, tokenId |-> UnknownId, ts |-> 0,
            sig |-> signPayload(UnknownId, "x", "x", 0)]

NoData == [tokenId |-> UnknownId, chittyId |-> NULL, scope |-> NoScope,
           service |-> NULL, createdAt |-> NullInt, expiresAt |-> NullInt,
           requestCount |-> NullInt, lastUsedAt |-> NullInt]

NoResult == [kind |-> "none"]

Idle == [op |-> "none",
         token |-> NoToken, expiresIn |-> NullInt,
         tokenId |-> UnknownId, reason |-> NULL,
         chittyId |-> NULL, scope |-> NoScope, service |-> NULL,
         tokenHash |-> hashToken(NoToken), tokenData |-> NoData,
         usageNow |-> NullInt, ttl |-> NullInt,
         rateKey |-> <<hashToken(NoToken), NullInt>>, count |-> NullInt,
         revokeNow |-> NullInt,
         newTokenId |-> UnknownId, createdAt |-> NullInt, expiresAt |-> NullInt,
         newToken |-> NoToken,
         validation |-> NoResult,
         \* history of the call, read by the properties only
         bearer |-> FALSE, given |-> NoToken,
         revokedAtStart |-> FALSE, revokeDoneAtStart |-> FALSE,
         markerAtStart |-> FALSE,
         cacheAtStart |-> FALSE, fromCache |-> FALSE,
         failedAt |-> "none",
         mutated |-> FALSE, counted |-> FALSE, events |-> << >>,
         result |-> NoResult]

\* The call of caller p moves to await `at` with locals l; the history records
\* whether this step wrote a token row, a cache entry or a revocation marker,
\* and whether it wrote a rate-limit counter.
Goto(p, at, l) ==
    /\ pc' = [pc EXCEPT ![p] = at]
    /\ local' = [local EXCEPT ![p] =
                    [l EXCEPT !.mutated = @ \/ db' # db \/ kvTokens' # kvTokens
                                            \/ kvRevoked' # kvRevoked,
                              !.counted = @ \/ kvRate' # kvRate]]

Threw(msg) == [kind |-> "threw", error |-> msg]

\* Token ids still to be drawn by the refresh calls in flight
Reserved == Cardinality({q \in Procs : /\ local[q].op = "refresh"
                                      /\ local[q].newTokenId = UnknownId
                                      /\ pc[q] # "done"})

-----------------------------------------------------------------------------
(* provision({chittyId, scope, service, expiresIn}) *)

\* A provision that does not check its parameters
BeginProvision_Unchecked(l, chittyId, scope, service, expiresIn) ==
    LET tokenId == nextId + 1
        createdAt == now
        expiresAt == createdAt + OrElse(expiresIn, DefaultTokenExpiry) * 1000
    IN  [at |-> "p_insert",
         l |-> [l EXCEPT !.chittyId = chittyId, !.scope = scope,
                         !.service = service,
                         !.newTokenId = tokenId,
                         !.createdAt = createdAt, !.expiresAt = expiresAt,
                         !.newToken = generateToken(environment, tokenId,
                                                    chittyId, service, now)]]

\* The synchronous head of provision, up to the awaited INSERT: the locals after
\* it and where the call continues
BeginProvision(l, chittyId, scope, service, expiresIn) ==
    IF chittyId = NULL \/ scope = NoScope \/ service = NULL
    THEN [at |-> "done",
          l |-> [l EXCEPT !.result =
                    Threw("Missing required parameters: chittyId, scope, service")]]
    ELSE LET tokenId == nextId + 1
             createdAt == now
             expiresAt == createdAt + OrElse(expiresIn, DefaultTokenExpiry) * 1000
         IN  [at |-> "p_insert",
              l |-> [l EXCEPT !.chittyId = chittyId, !.scope = scope,
                              !.service = service,
                              !.newTokenId = tokenId,
                              !.createdAt = createdAt, !.expiresAt = expiresAt,
                              !.newToken = generateToken(environment, tokenId,
                                                         chittyId, service, now)]]

DrawsId(b) == b.at = "p_insert"

CallProvision(p, c) ==
    /\ pc[p] = "idle"
    /\ nextId < c.provisions
    /\ \E chittyId \in ChittyIds \cup {NULL}, scope \in c.scopes \cup {NoScope},
          service \in Services \cup {NULL}, expiresIn \in c.expiresIns :
         LET b == BeginProvision([Idle EXCEPT !.op = "provision",
                                              !.expiresIn = expiresIn,
                                              !.chittyId = chittyId,
                                              !.scope = scope,
                                              !.service = service],
                                 chittyId, scope, service, expiresIn)
         IN  /\ DrawsId(b) => nextId + Reserved < c.tokens
             /\ nextId' = IF DrawsId(b) THEN nextId + 1 ELSE nextId
             /\ UNCHANGED <<now, environment, signingKey, db, kvTokens, kvRevoked, kvRate,
                          issued, refreshed, revokedDone>>
             /\ Goto(p, b.at, b.l)

NewRow(l) ==
    [id |-> l.newTokenId,
     token_hash |-> hashToken(l.newToken),
     chitty_id |-> l.chittyId,
     scope |-> JSONStringify(l.scope),
     service_name |-> NULL,
     created_at |-> l.createdAt,
     expires_at |-> l.expiresAt,
     last_used_at |-> NullInt,
     request_count |-> 0,
     revoked_at |-> NullInt,
     revocation_reason |-> NULL]

\* A provision that goes on to the cache without inserting the row
ProvisionInsert_Skip(p) ==
    /\ pc[p] = "p_insert"
    /\ LET l == local[p]
       IN  /\ refreshed' = IF l.op = "refresh"
                           THEN refreshed \cup {<<l.validation.tokenId, l.newTokenId>>}
                           ELSE refreshed
           /\ UNCHANGED <<now, environment, signingKey, db, kvTokens, kvRevoked, kvRate,
                          nextId, issued, revokedDone>>
           /\ Goto(p, "p_cache",
                   [l EXCEPT !.ttl = (l.expiresAt - l.createdAt) \div 1000])

\* INSERT INTO tokens (id, token_hash, chitty_id, scope, created_at, expires_at, request_count)
ProvisionInsert(p) ==
    /\ pc[p] = "p_insert"
    /\ LET l == local[p]
       IN  /\ db' = [x \in DOMAIN db \cup {l.newTokenId} |->
                        IF x = l.newTokenId THEN NewRow(l) ELSE db[x]]
           /\ refreshed' = IF l.op = "refresh"
                           THEN refreshed \cup {<<l.validation.tokenId, l.newTokenId>>}
                           ELSE refreshed
           /\ UNCHANGED <<now, environment, signingKey, kvTokens, kvRevoked, kvRate,
                          nextId, issued, revokedDone>>
           /\ Goto(p, "p_cache",
                   [l EXCEPT !.ttl = (l.expiresAt - l.createdAt) \div 1000])

NewTokenData(l) ==
    [tokenId |-> l.newTokenId, chittyId |-> l.chittyId, scope |-> l.scope,
     service |-> l.service, createdAt |-> l.createdAt, expiresAt |-> l.expiresAt,
     requestCount |-> 0, lastUsedAt |-> NullInt]

\* AUTH_TOKENS.put(`token:${tokenHash}`, JSON.stringify(tokenData), {expirationTtl: ttl})
ProvisionCache(p) ==
    /\ pc[p] = "p_cache"
    /\ LET l == local[p]
       IN  /\ kvTokens' = KVPut(kvTokens, hashToken(l.newToken),
                                JSONStringify(NewTokenData(l)), l.ttl)
           /\ UNCHANGED <<now, environment, signingKey, db, kvRevoked, kvRate, nextId,
                          issued, refreshed, revokedDone>>
           /\ Goto(p, "p_audit", l)

ProvisionResult(l) ==
    [kind |-> "provisioned", success |-> TRUE, token |-> l.newToken,
     tokenId |-> l.newTokenId, scope |-> l.scope,
     expiresAt |-> toISOString(l.expiresAt),
     rateLimit |-> getRateLimit(l.scope)]

\* logAuditEvent({eventType: 'token_provision', ...}); a provision made by
\* refresh returns into refresh, which logs token_refreshed next
ProvisionAudit(p) ==
    /\ pc[p] = "p_audit"
    /\ LET l == logAuditEvent(local[p], Event("token_provision", local[p].newTokenId,
                                             local[p].chittyId, local[p].service,
                                             TRUE, NULL))
       IN  /\ UNCHANGED <<now, environment, signingKey, db, kvTokens, kvRevoked, kvRate,
                          nextId, issued, refreshed, revokedDone>>
           /\ IF l.op = "refresh"
              THEN Goto(p, "f_audit", l)
              ELSE Goto(p, "done", [l EXCEPT !.result = ProvisionResult(l)])

-----------------------------------------------------------------------------
(* revoke(tokenId, reason = 'Manual revocation') *)

\* A revoke that is handed an id no row has
BeginRevoke_WrongId(l, tokenId, reason) ==
    [l EXCEPT !.tokenId = UnknownId, !.reason = reason, !.revokeNow = now]

BeginRevoke(l, tokenId, reason) ==
    [l EXCEPT !.tokenId = tokenId, !.reason = reason, !.revokeNow = now]

CallRevoke(p, c) ==
    /\ pc[p] = "idle"
    /\ \E tokenId \in {i.tokenId : i \in issued} \cup {UnknownId},
          reason \in c.reasons :
         /\ UNCHANGED <<now, environment, signingKey, db, kvTokens, kvRevoked, kvRate,
                          nextId, issued, refreshed, revokedDone>>
         /\ Goto(p, "r_update",
                 BeginRevoke([Idle EXCEPT !.op = "revoke"],
                             tokenId, reason))

\* A revoke that does not write revoked_at before it goes on to the marker
RevokeUpdate_NoWrite(p) ==
    /\ pc[p] = "r_update"
    /\ UNCHANGED <<now, environment, signingKey, db, kvTokens, kvRevoked, kvRate,
                   nextId, issued, refreshed, revokedDone>>
    /\ Goto(p, "r_select", local[p])

\* A revoke that also ends the token's lifetime in the row
RevokeUpdate_Expire(p) ==
    /\ pc[p] = "r_update"
    /\ LET l == local[p]
       IN  /\ db' = IF l.tokenId \in DOMAIN db
                    THEN [db EXCEPT ![l.tokenId].revoked_at = l.revokeNow,
                                    ![l.tokenId].expires_at = l.revokeNow]
                    ELSE db
           /\ UNCHANGED <<now, environment, signingKey, kvTokens, kvRevoked, kvRate,
                          nextId, issued, refreshed, revokedDone>>
           /\ Goto(p, "r_select", l)

\* UPDATE tokens SET revoked_at = ? WHERE id = ?
RevokeUpdate(p) ==
    /\ pc[p] = "r_update"
    /\ LET l == local[p]
       IN  /\ db' = IF l.tokenId \in DOMAIN db
                    THEN [db EXCEPT ![l.tokenId].revoked_at = l.revokeNow]
                    ELSE db
           /\ UNCHANGED <<now, environment, signingKey, kvTokens, kvRevoked, kvRate,
                          nextId, issued, refreshed, revokedDone>>
           /\ Goto(p, "r_select", l)

\* A revoke that neither writes the marker nor deletes the cache entry
RevokeSelect_NoStores(p) ==
    /\ pc[p] = "r_select"
    /\ LET l == local[p]
       IN  /\ UNCHANGED <<now, environment, signingKey, db, kvTokens, kvRevoked, kvRate,
                          nextId, issued, refreshed, revokedDone>>
           /\ Goto(p, "r_audit", l)

\* A revoke that writes the marker and deletes the cache entry whatever it selected
RevokeSelect_Always(p) ==
    /\ pc[p] = "r_select"
    /\ LET l == local[p]
       IN  /\ UNCHANGED <<now, environment, signingKey, db, kvTokens, kvRevoked, kvRate,
                          nextId, issued, refreshed, revokedDone>>
           /\ IF l.tokenId \in DOMAIN db
              THEN Goto(p, "r_marker",
                        [l EXCEPT !.tokenHash = db[l.tokenId].token_hash])
              ELSE Goto(p, "r_marker", l)

\* SELECT token_hash FROM tokens WHERE id = ?
RevokeSelect(p) ==
    /\ pc[p] = "r_select"
    /\ LET l == local[p]
       IN  /\ UNCHANGED <<now, environment, signingKey, db, kvTokens, kvRevoked, kvRate,
                          nextId, issued, refreshed, revokedDone>>
           /\ IF l.tokenId \in DOMAIN db
              THEN Goto(p, "r_marker",
                        [l EXCEPT !.tokenHash = db[l.tokenId].token_hash])
              ELSE Goto(p, "r_audit", l)

\* AUTH_REVOCATIONS.put(`revoked:${hash}`, {tokenId, reason, revokedAt: now}, 90 days)
RevokeMarker(p) ==
    /\ pc[p] = "r_marker"
    /\ LET l == local[p]
       IN  /\ kvRevoked' = KVPut(kvRevoked, l.tokenHash,
                                 JSONStringify([tokenId |-> l.tokenId,
                                                reason |-> l.reason,
                                                revokedAt |-> l.revokeNow]),
                                 MarkerTtl)
           /\ UNCHANGED <<now, environment, signingKey, db, kvTokens, kvRate, nextId,
                          issued, refreshed, revokedDone>>
           /\ Goto(p, "r_delete", l)

\* AUTH_TOKENS.delete(`token:${hash}`)
RevokeDelete(p) ==
    /\ pc[p] = "r_delete"
    /\ LET l == local[p]
       IN  /\ kvTokens' = KVDelete(kvTokens, l.tokenHash)
           /\ UNCHANGED <<now, environment, signingKey, db, kvRevoked, kvRate, nextId,
                          issued, refreshed, revokedDone>>
           /\ Goto(p, "r_audit", l)

RevokeResult(l) ==
    [kind |-> "revoked", success |-> TRUE, tokenId |-> l.tokenId,
     revokedAt |-> toISOString(l.revokeNow), reason |-> l.reason]

\* logAuditEvent({eventType: 'token_revoked', ...}); a revoke made by refresh
\* returns into refresh, which calls provision next
RevokeAudit(p) ==
    /\ pc[p] = "r_audit"
    /\ LET l == logAuditEvent(local[p], Event("token_revoked", local[p].tokenId, NULL,
                                             NULL, TRUE, NULL))
           b == BeginProvision(l, l.validation.chittyId, l.validation.scope,
                               l.validation.service, l.expiresIn)
       IN  /\ UNCHANGED <<now, environment, signingKey, db, kvTokens, kvRevoked, kvRate,
                          issued, refreshed>>
           /\ revokedDone' = revokedDone \cup ({l.tokenId} \cap DOMAIN db)
           /\ IF l.op = "refresh"
              THEN /\ nextId' = IF DrawsId(b) THEN nextId + 1 ELSE nextId
                   /\ Goto(p, b.at, b.l)
              ELSE /\ nextId' = nextId
                   /\ Goto(p, "done", [l EXCEPT !.result = RevokeResult(l)])

-----------------------------------------------------------------------------
(* validate(token) *)

Invalid(msg) == [kind |-> "validation", valid |-> FALSE, error |-> msg]

\* A validate call ends with result r: it returns to its caller, or into refresh
\* (lines 205-211), which fails with the same error or goes on to revoke
EndValidate(p, l, r) ==
    IF l.op # "refresh" \/ r.kind = "threw"
    THEN Goto(p, "done", [l EXCEPT !.result = r])
    ELSE IF ~r.valid
    THEN Goto(p, "done",
              [l EXCEPT !.validation = r,
                        !.result = [kind |-> "failure", success |-> FALSE,
                                    error |-> r.error]])
    ELSE Goto(p, "r_update",
              BeginRevoke([l EXCEPT !.validation = r], r.tokenId, "Token refreshed"))

\* A validate that leaves 'Bearer ' in front of the token string
StripBearer_Keep(raw) ==
    IF raw.bearer THEN [raw.token EXCEPT !.prefix = <<"Bearer">> \o @]
    ELSE raw.token

\* The caller's input: a token string, with or without 'Bearer ' in front
StripBearer(raw) == raw.token

\* What the caller passed: the token string and whether 'Bearer ' preceded it
Given(l, raw) == [l EXCEPT !.bearer = raw.bearer, !.given = raw.token]

\* The synchronous head of validate: type check, strip 'Bearer ', format check
BeginValidate(p, l, raw) ==
    LET token == StripBearer(raw)
    IN  IF ~isValidTokenFormat(token)
        THEN EndValidate(p, l, Invalid("Invalid token format"))
        ELSE Goto(p, "v_revoked",
                  [l EXCEPT !.token = token, !.tokenHash = hashToken(token)])

RowOfHash(h) == {id \in DOMAIN db : db[id].token_hash = h}

\* History of the call: what the stores held for the token when the call began
AtStart(l, token) ==
    LET h == hashToken(token)
    IN  [l EXCEPT !.revokedAtStart = \E id \in RowOfHash(h) : db[id].revoked_at # NullInt,
                  !.revokeDoneAtStart = RowOfHash(h) \cap revokedDone # {},
                  !.markerAtStart = KVHas(kvRevoked, h),
                  !.cacheAtStart = KVHas(kvTokens, h)]

\* Validations of the token still allowed by the bound MaxRequests
Budget(token, c) ==
    \A id \in RowOfHash(hashToken(token)) :
        db[id].request_count
          + Cardinality({q \in Procs : /\ pc[q] \in {"v_revoked", "v_cache", "v_select", "v_usage"}
                                       /\ local[q].token = token})
          < c.requests

Inputs == {[bearer |-> b, token |-> t] :
              b \in BOOLEAN, t \in {i.token : i \in issued} \cup {BadToken, ForgedToken}}

CallValidate(p, c) ==
    /\ pc[p] = "idle"
    /\ \E raw \in Inputs :
         /\ Budget(raw.token, c)
         /\ UNCHANGED <<now, environment, signingKey, db, kvTokens, kvRevoked, kvRate,
                          nextId, issued, refreshed, revokedDone>>
         /\ BeginValidate(p, AtStart(Given([Idle EXCEPT !.op = "validate"], raw),
                                     raw.token), raw)

\* The error the failure branches log, by the error they return
AuditError(msg) ==
    IF msg = "Token has been revoked" THEN "Token revoked"
    ELSE IF msg = "Token has expired" THEN "Token expired"
    ELSE msg

FailedEvent(tokenId, msg) ==
    Event("token_validation_failed", tokenId, NULL, NULL, FALSE, AuditError(msg))

\* A validate that goes to the cache without reading the revocation marker
ValidateRevoked_NoMarkerCheck(p) ==
    /\ pc[p] = "v_revoked"
    /\ LET l == local[p]
       IN  /\ UNCHANGED <<now, environment, signingKey, db, kvTokens, kvRevoked, kvRate,
                          nextId, issued, refreshed, revokedDone>>
           /\ Goto(p, "v_cache", l)

\* AUTH_REVOCATIONS.get(`revoked:${tokenHash}`)
ValidateRevoked(p) ==
    /\ pc[p] = "v_revoked"
    /\ LET l == local[p]
       IN  /\ UNCHANGED <<now, environment, signingKey, db, kvTokens, kvRevoked, kvRate,
                          nextId, issued, refreshed, revokedDone>>
           /\ IF KVGet(kvRevoked, l.tokenHash) # NoRow
              THEN Goto(p, "v_fail", [l EXCEPT !.result = Invalid("Token has been revoked")])
              ELSE Goto(p, "v_cache", l)

\* After tokenData is known (lines 151-175): not found, expired, or on to
\* updateTokenUsage, which reads Date.now() before its UPDATE
AfterLookup(p, l, tokenData) ==
    IF tokenData = NoData
    THEN Goto(p, "v_fail", [l EXCEPT !.result = Invalid("Token not found")])
    ELSE IF tokenData.expiresAt < now
    THEN Goto(p, "v_fail", [l EXCEPT !.tokenData = tokenData,
                                     !.result = Invalid("Token has expired")])
    ELSE Goto(p, "v_usage", [l EXCEPT !.tokenData = tokenData, !.usageNow = now])

\* AUTH_TOKENS.get(`token:${tokenHash}`)
ValidateCache(p) ==
    /\ pc[p] = "v_cache"
    /\ LET l == local[p]
           data == KVGet(kvTokens, l.tokenHash)
       IN  /\ UNCHANGED <<now, environment, signingKey, db, kvTokens, kvRevoked, kvRate,
                          nextId, issued, refreshed, revokedDone>>
           /\ IF data # NoRow
              THEN AfterLookup(p, [l EXCEPT !.fromCache = TRUE], JSONParse(data))
              ELSE Goto(p, "v_select", l)

DataOfRow(r) ==
    [tokenId |-> r.id, chittyId |-> r.chitty_id, scope |-> JSONParse(r.scope),
     service |-> r.service_name, createdAt |-> r.created_at,
     expiresAt |-> r.expires_at, requestCount |-> r.request_count,
     lastUsedAt |-> NullInt]

\* SELECT * FROM tokens WHERE token_hash = ? AND revoked_at IS NULL
ValidateSelect(p) ==
    /\ pc[p] = "v_select"
    /\ LET l == local[p]
           rows == {id \in RowOfHash(l.tokenHash) : db[id].revoked_at = NullInt}
       IN  /\ UNCHANGED <<now, environment, signingKey, db, kvTokens, kvRevoked, kvRate,
                          nextId, issued, refreshed, revokedDone>>
           /\ IF rows = {}
              THEN AfterLookup(p, l, NoData)
              ELSE AfterLookup(p, l, DataOfRow(db[CHOOSE id \in rows : TRUE]))

\* A failure branch that records the use of the token before it returns
ValidateFail_Touch(p) ==
    /\ pc[p] = "v_fail"
    /\ LET tokenId == IF local[p].result.error = "Token has expired"
                      THEN local[p].tokenData.tokenId ELSE NullInt
           l == logAuditEvent(local[p], FailedEvent(tokenId, local[p].result.error))
       IN  /\ db' = [id \in DOMAIN db |->
                        IF db[id].token_hash = l.tokenHash
                        THEN [db[id] EXCEPT !.last_used_at = now,
                                            !.request_count = @ + 1]
                        ELSE db[id]]
           /\ UNCHANGED <<now, environment, signingKey, kvTokens, kvRevoked, kvRate,
                          nextId, issued, refreshed, revokedDone>>
           /\ EndValidate(p, [l EXCEPT !.result = NoResult], l.result)

\* logAuditEvent({eventType: 'token_validation_failed', ...}) and return
ValidateFail(p) ==
    /\ pc[p] = "v_fail"
    /\ LET tokenId == IF local[p].result.error = "Token has expired"
                      THEN local[p].tokenData.tokenId ELSE NullInt
           l == logAuditEvent(local[p], FailedEvent(tokenId, local[p].result.error))
       IN  /\ UNCHANGED <<now, environment, signingKey, db, kvTokens, kvRevoked, kvRate,
                          nextId, issued, refreshed, revokedDone>>
           /\ EndValidate(p, [l EXCEPT !.result = NoResult], l.result)

\* checkRateLimit up to its awaited get (lines 356-368): the window key
BeginRate(p, l) ==
    LET nowSec == now \div 1000
        windowStart == nowSec - RateWindow
    IN  Goto(p, "v_rate", [l EXCEPT !.rateKey = <<l.tokenHash, windowStart>>])

\* An updateTokenUsage that writes the count it read with the token data
ValidateUsage_ReadModifyWrite(p) ==
    /\ pc[p] = "v_usage"
    /\ LET l == local[p]
           data == [l.tokenData EXCEPT !.lastUsedAt = l.usageNow,
                                       !.requestCount = OrElse(@, 0) + 1]
           ttl == (data.expiresAt - l.usageNow) \div 1000
           l2 == [l EXCEPT !.tokenData = data, !.ttl = ttl]
       IN  /\ db' = [id \in DOMAIN db |->
                        IF db[id].token_hash = l.tokenHash
                        THEN [db[id] EXCEPT !.last_used_at = l.usageNow,
                                            !.request_count = data.requestCount]
                        ELSE db[id]]
           /\ UNCHANGED <<now, environment, signingKey, kvTokens, kvRevoked, kvRate,
                          nextId, issued, refreshed, revokedDone>>
           /\ IF ttl > 0 THEN Goto(p, "v_put", l2) ELSE BeginRate(p, l2)

\* updateTokenUsage: UPDATE tokens SET last_used_at = ?, request_count =
\* request_count + 1 WHERE token_hash = ?
ValidateUsage(p) ==
    /\ pc[p] = "v_usage"
    /\ LET l == local[p]
           data == [l.tokenData EXCEPT !.lastUsedAt = l.usageNow,
                                       !.requestCount = OrElse(@, 0) + 1]
           ttl == (data.expiresAt - l.usageNow) \div 1000
           l2 == [l EXCEPT !.tokenData = data, !.ttl = ttl]
       IN  /\ db' = [id \in DOMAIN db |->
                        IF db[id].token_hash = l.tokenHash
                        THEN [db[id] EXCEPT !.last_used_at = l.usageNow,
                                            !.request_count = @ + 1]
                        ELSE db[id]]
           /\ UNCHANGED <<now, environment, signingKey, kvTokens, kvRevoked, kvRate,
                          nextId, issued, refreshed, revokedDone>>
           /\ IF ttl > 0 THEN Goto(p, "v_put", l2) ELSE BeginRate(p, l2)

\* updateTokenUsage: AUTH_TOKENS.put(`token:${tokenHash}`, tokenData, {expirationTtl: ttl})
ValidatePut(p) ==
    /\ pc[p] = "v_put"
    /\ LET l == local[p]
       IN  /\ kvTokens' = KVPut(kvTokens, l.tokenHash, JSONStringify(l.tokenData), l.ttl)
           /\ UNCHANGED <<now, environment, signingKey, db, kvRevoked, kvRate, nextId,
                          issued, refreshed, revokedDone>>
           /\ BeginRate(p, l)

\* A checkRateLimit that never rejects
ValidateRate_NoLimit(p) ==
    /\ pc[p] = "v_rate"
    /\ LET l == local[p]
           current == KVGet(kvRate, l.rateKey)
           count == IF current # NoRow THEN parseInt(current) ELSE 0
       IN  /\ UNCHANGED <<now, environment, signingKey, db, kvTokens, kvRevoked, kvRate,
                          nextId, issued, refreshed, revokedDone>>
           /\ Goto(p, "v_count", [l EXCEPT !.count = count])

\* A checkRateLimit that counts the call it rejects
ValidateRate_CountRejected(p) ==
    /\ pc[p] = "v_rate"
    /\ LET l == local[p]
           current == KVGet(kvRate, l.rateKey)
           count == IF current # NoRow THEN parseInt(current) ELSE 0
       IN  /\ UNCHANGED <<now, environment, signingKey, db, kvTokens, kvRevoked,
                          nextId, issued, refreshed, revokedDone>>
           /\ IF count >= getRateLimit(l.tokenData.scope)
              THEN /\ kvRate' = KVPut(kvRate, l.rateKey, numToString(count + 1),
                                      RateWindow)
                   /\ EndValidate(p, l, Threw("Rate limit exceeded"))
              ELSE /\ kvRate' = kvRate
                   /\ Goto(p, "v_count", [l EXCEPT !.count = count])

\* checkRateLimit: AUTH_RATE_LIMITS.get(key), then throw at the limit
ValidateRate(p) ==
    /\ pc[p] = "v_rate"
    /\ LET l == local[p]
           current == KVGet(kvRate, l.rateKey)
           count == IF current # NoRow THEN parseInt(current) ELSE 0
       IN  /\ UNCHANGED <<now, environment, signingKey, db, kvTokens, kvRevoked, kvRate,
                          nextId, issued, refreshed, revokedDone>>
           /\ IF count >= getRateLimit(l.tokenData.scope)
              THEN EndValidate(p, l, Threw("Rate limit exceeded"))
              ELSE Goto(p, "v_count", [l EXCEPT !.count = count])

\* checkRateLimit: AUTH_RATE_LIMITS.put(key, (count + 1).toString(), {expirationTtl: window})
ValidateCount(p) ==
    /\ pc[p] = "v_count"
    /\ LET l == local[p]
       IN  /\ kvRate' = KVPut(kvRate, l.rateKey, numToString(l.count + 1), RateWindow)
           /\ UNCHANGED <<now, environment, signingKey, db, kvTokens, kvRevoked,
                          nextId, issued, refreshed, revokedDone>>
           /\ Goto(p, "v_ok", l)

ValidResult(l) ==
    [kind |-> "validation", valid |-> TRUE,
     tokenId |-> l.tokenData.tokenId, chittyId |-> l.tokenData.chittyId,
     scope |-> l.tokenData.scope, service |-> l.tokenData.service,
     expiresAt |-> toISOString(l.tokenData.expiresAt),
     rateLimitRemaining |-> getRateLimit(l.tokenData.scope) - l.count - 1]

\* logAuditEvent({eventType: 'token_validated', ...}) and return
ValidateOk(p) ==
    /\ pc[p] = "v_ok"
    /\ LET l == logAuditEvent(local[p], Event("token_validated",
                                             local[p].tokenData.tokenId,
                                             local[p].tokenData.chittyId,
                                             NULL, TRUE, NULL))
       IN  /\ UNCHANGED <<now, environment, signingKey, db, kvTokens, kvRevoked, kvRate,
                          nextId, issued, refreshed, revokedDone>>
           /\ EndValidate(p, l, ValidResult(l))

-----------------------------------------------------------------------------
(* refresh(token, expiresIn) *)

CallRefresh(p, c) ==
    /\ pc[p] = "idle"
    /\ nextId + Reserved < c.tokens
    /\ \E raw \in Inputs, expiresIn \in c.expiresIns :
         /\ Budget(raw.token, c)
         /\ UNCHANGED <<now, environment, signingKey, db, kvTokens, kvRevoked, kvRate,
                          nextId, issued, refreshed, revokedDone>>
         /\ BeginValidate(p, AtStart(Given([Idle EXCEPT !.op = "refresh",
                                                        !.expiresIn = expiresIn],
                                           raw),
                                     raw.token), raw)

\* A refresh that returns the new token without logging token_refreshed
RefreshAudit_NoEvent(p) ==
    /\ pc[p] = "f_audit"
    /\ UNCHANGED <<now, environment, signingKey, db, kvTokens, kvRevoked, kvRate,
                   nextId, issued, refreshed, revokedDone>>
    /\ Goto(p, "done", [local[p] EXCEPT !.result = ProvisionResult(local[p])])

\* logAuditEvent({eventType: 'token_refreshed', ...}) and return newToken
RefreshAudit(p) ==
    /\ pc[p] = "f_audit"
    /\ LET l == logAuditEvent(local[p], Event("token_refreshed",
                                             local[p].validation.tokenId,
                                             local[p].validation.chittyId,
                                             NULL, TRUE, NULL))
       IN  /\ UNCHANGED <<now, environment, signingKey, db, kvTokens, kvRevoked, kvRate,
                          nextId, issued, refreshed, revokedDone>>
           /\ Goto(p, "done", [l EXCEPT !.result = ProvisionResult(l)])

-----------------------------------------------------------------------------
(* The audit stores fail *)

\* The awaits at which a call is inside logAuditEvent
AuditAwaits == {"p_audit", "r_audit", "v_fail", "v_ok", "f_audit"}

AuditStoreError == "audit store unavailable"

\* The INSERT INTO auth_events or the AUTH_AUDIT.put of logAuditEvent rejects:
\* logAuditEvent has no try/catch and every caller awaits it bare, so the
\* rejection leaves the method, and refresh when the method was called by it
AuditFails(p) ==
    /\ pc[p] \in AuditAwaits
    /\ UNCHANGED <<now, environment, signingKey, db, kvTokens, kvRevoked, kvRate,
                   nextId, issued, refreshed, revokedDone>>
    /\ Goto(p, "done", [local[p] EXCEPT !.result = Threw(AuditStoreError)])

-----------------------------------------------------------------------------
(* The token stores fail *)

\* The awaits at which validate is inside a call of AUTH_REVOCATIONS,
\* AUTH_TOKENS, AUTH_DB or AUTH_RATE_LIMITS
StoreAwaits == {"v_revoked", "v_cache", "v_select", "v_usage", "v_put", "v_rate",
                "v_count"}

StoreError == "store unavailable"

\* A validate that takes a rejected lookup for a miss
StoreFails_Swallowed(p) ==
    /\ pc[p] \in {"v_cache", "v_select"}
    /\ UNCHANGED <<now, environment, signingKey, db, kvTokens, kvRevoked, kvRate,
                   nextId, issued, refreshed, revokedDone>>
    /\ LET l == [local[p] EXCEPT !.failedAt = pc[p]]
       IN  IF pc[p] = "v_cache" THEN Goto(p, "v_select", l)
           ELSE AfterLookup(p, l, NoData)

\* The store call validate awaits rejects (an error or a timeout): validate has
\* no try/catch around any of them, so the rejection leaves validate, and
\* refresh when validate was called by it
StoreFails(p) ==
    /\ pc[p] \in StoreAwaits
    /\ UNCHANGED <<now, environment, signingKey, db, kvTokens, kvRevoked, kvRate,
                   nextId, issued, refreshed, revokedDone>>
    /\ EndValidate(p, [local[p] EXCEPT !.failedAt = pc[p]], Threw(StoreError))

-----------------------------------------------------------------------------
(* The caller takes the result *)

Return(p) ==
    /\ pc[p] = "done"
    /\ issued' = IF local[p].result.kind = "provisioned"
                 THEN issued \cup {[token |-> local[p].result.token,
                                    tokenId |-> local[p].result.tokenId,
                                    chittyId |-> local[p].chittyId,
                                    scope |-> local[p].scope,
                                    service |-> local[p].service,
                                    expiresAt |-> local[p].expiresAt]}
                 ELSE issued
    /\ pc' = [pc EXCEPT ![p] = "idle"]
    /\ local' = [local EXCEPT ![p] = Idle]
    /\ UNCHANGED <<now, environment, signingKey, db, kvTokens, kvRevoked, kvRate,
                          nextId, refreshed, revokedDone>>

InitOf(envs, keys) ==
    /\ now = 0
    /\ environment \in envs
    /\ signingKey \in {constructor(key) : key \in keys}
    /\ db = << >>
    /\ kvTokens = << >>
    /\ kvRevoked = << >>
    /\ kvRate = << >>
    /\ nextId = 0
    /\ issued = {}
    /\ refreshed = {}
    /\ revokedDone = {}
    /\ pc = [p \in Procs |-> "idle"]
    /\ local = [p \in Procs |-> Idle]

\* The engine of the unit tests, in a deployment with ENVIRONMENT in envs
InitWith(envs) == InitOf(envs, {TestSigningKey})

\* The clock is coarser than a call: it advances while no call is in flight
Tick(maxNow) ==
    /\ \A p \in Procs : pc[p] = "idle"
    /\ now + TickMs <= maxNow
    /\ now' = now + TickMs
    /\ UNCHANGED <<environment, signingKey, db, kvTokens, kvRevoked, kvRate, nextId,
                   issued, refreshed, revokedDone, pc, local>>


\* What one specification lets the callers ask for
Bounds(provisions, expiresIns, reasons, requests) ==
    [provisions |-> provisions, expiresIns |-> expiresIns, reasons |-> reasons,
     requests |-> requests, scopes |-> Scopes, tokens |-> MaxTokens]

ProvisionSteps(p) == ProvisionInsert(p) \/ ProvisionCache(p) \/ ProvisionAudit(p)

RevokeSteps(p) ==
    \/ RevokeUpdate(p) \/ RevokeSelect(p) \/ RevokeMarker(p)
    \/ RevokeDelete(p) \/ RevokeAudit(p)

ValidateSteps(p) ==
    \/ ValidateRevoked(p) \/ ValidateCache(p) \/ ValidateSelect(p)
    \/ ValidateFail(p) \/ ValidateUsage(p) \/ ValidatePut(p) \/ ValidateRate(p)
    \/ ValidateCount(p) \/ ValidateOk(p)

Step(p, c) ==
    \/ CallProvision(p, c) \/ CallValidate(p, c) \/ CallRefresh(p, c) \/ CallRevoke(p, c)
    \/ ProvisionSteps(p) \/ RevokeSteps(p) \/ ValidateSteps(p) \/ RefreshAudit(p)
    \/ Return(p)

\* The deployment of the unit tests: ENVIRONMENT is not set
Init == InitWith({NULL})

\* Calls made one after the other by one caller, over time
SeqBounds == Bounds(MaxProvisions, ExpiresIns, Reasons, MaxRequests)

NextSeq == Tick(MaxNow) \/ Step("c1", SeqBounds)

SpecSeq == Init /\ [][NextSeq]_vars

\* Calls of two callers interleaved at their awaits, at one instant
ConcBounds == Bounds(MaxProvisions, {2}, {"Manual revocation"}, MaxRequests)

Next == \E p \in Procs : Step(p, ConcBounds)

Spec == Init /\ [][Next]_vars

\* Calls made one after the other within one second, as many validations of a
\* token as its rate limit allows and one more
RateBounds == Bounds(MaxProvisions, {2}, {"Manual revocation"}, BasicLimit + 1)

NextRate == Step("c1", RateBounds)

SpecRate == Init /\ [][NextRate]_vars

\* Calls made one after the other at one instant, on tokens of every scope tier
ScopeBounds ==
    [Bounds(MaxProvisions, {2}, {"Manual revocation"}, MaxRequests)
        EXCEPT !.scopes = ScopeSets]

NextScope == Step("c1", ScopeBounds)

SpecScope == Init /\ [][NextScope]_vars

\* The locals of the provision that issued the first token, at time 0
FirstProvision ==
    [Idle EXCEPT !.op = "provision",
                 !.expiresIn = 2,
                 !.chittyId = CHOOSE x \in ChittyIds : TRUE,
                 !.scope = CHOOSE x \in Scopes : TRUE,
                 !.service = CHOOSE x \in Services : TRUE,
                 !.newTokenId = 1,
                 !.createdAt = 0,
                 !.expiresAt = 2000,
                 !.newToken = generateToken(NULL, 1, CHOOSE x \in ChittyIds : TRUE,
                                            CHOOSE x \in Services : TRUE, 0)]

\* The stores after that provision and n validations of its token, all returned
\* within the second of the provision
AfterValidations(n) ==
    LET l == FirstProvision
        h == hashToken(l.newToken)
    IN  /\ now = 0
        /\ environment = NULL
        /\ signingKey = constructor(TestSigningKey)
        /\ db = (1 :> [NewRow(l) EXCEPT !.last_used_at = 0, !.request_count = n])
        /\ kvTokens = (h :> [val |-> JSONStringify([NewTokenData(l) EXCEPT
                                                      !.lastUsedAt = 0,
                                                      !.requestCount = n]),
                             at |-> 0, ttl |-> 2])
        /\ kvRevoked = << >>
        /\ kvRate = (<<h, 0 - RateWindow>> :>
                        [val |-> numToString(n), at |-> 0, ttl |-> RateWindow])
        /\ nextId = 1
        /\ issued = {[token |-> l.newToken, tokenId |-> 1, chittyId |-> l.chittyId,
                      scope |-> l.scope, service |-> l.service,
                      expiresAt |-> l.expiresAt]}
        /\ refreshed = {}
        /\ revokedDone = {}
        /\ pc = [p \in Procs |-> "idle"]
        /\ local = [p \in Procs |-> Idle]

\* Calls made one after the other at one instant, in every deployment: each
\* ENVIRONMENT, with and without TOKEN_SIGNING_KEY, with expiresIn given (0
\* included) and absent
InitConfig == InitOf(Environments, {NULL, TestSigningKey})

ConfigBounds ==
    Bounds(MaxProvisions, {0, 2, NullInt}, {"Manual revocation"}, MaxRequests)

NextConfig == Step("c1", ConfigBounds)

SpecConfig == InitConfig /\ [][NextConfig]_vars

\* Calls made one after the other at one instant, with audit stores that may
\* reject a write
NextAudit == Step("c1", ConcBounds) \/ AuditFails("c1")

SpecAudit == Init /\ [][NextAudit]_vars

\* Calls made one after the other at one instant, with token stores that may
\* reject a call of validate
NextStore == Step("c1", ConcBounds) \/ StoreFails("c1")

SpecStore == Init /\ [][NextStore]_vars

\* Calls made one after the other by one caller, over time, on a token that
\* lives one second
ClockBounds == Bounds(MaxProvisions, {1}, {"Manual revocation"}, MaxRequests)

NextClock == Tick(MaxNow) \/ Step("c1", ClockBounds)

SpecClock == Init /\ [][NextClock]_vars

\* Refreshes of two callers interleaved at their awaits, begun after one
\* provision and one validation of its token (a state Spec reaches); each
\* refresh may draw a token id
InitSwap == AfterValidations(1)

SwapBounds ==
    [Bounds(MaxProvisions, {2}, {"Manual revocation"}, MaxRequests + 1)
        EXCEPT !.tokens = MaxTokens + 1]

SwapStep(p, c) ==
    \/ CallRefresh(p, c) \/ ValidateSteps(p) \/ RevokeSteps(p) \/ ProvisionSteps(p)
    \/ RefreshAudit(p) \/ Return(p)

NextSwap == \E p \in Procs : SwapStep(p, SwapBounds)

SpecSwap == InitSwap /\ [][NextSwap]_vars

\* Validations of two callers interleaved at their awaits, begun when one slot
\* of the token's rate limit is left (a state SpecRate reaches)
InitRace == AfterValidations(BasicLimit - 1)

RaceStep(p, c) == CallValidate(p, c) \/ ValidateSteps(p) \/ Return(p)

NextRace == \E p \in Procs : RaceStep(p, RateBounds)

SpecRace == InitRace /\ [][NextRace]_vars

-----------------------------------------------------------------------------
(* Properties *)

Done(p, op) == pc[p] = "done" /\ local[p].op = op

\* What the caller was given for the token of call p
Held(p) == {i \in issued : i.token = local[p].token}

\* C1: a validate of a provisioned token, begun before its expiry and before any
\* revoke of it, returns valid:true with the tokenId, chittyId, scope and
\* service that were provisioned.
C1_RoundTrip ==
    \A p \in Procs : \A i \in Held(p) :
        (Done(p, "validate") /\ ~local[p].revokedAtStart /\ now < i.expiresAt)
        => /\ local[p].result.kind = "validation"
           /\ local[p].result.valid
           /\ local[p].result.tokenId = i.tokenId
           /\ local[p].result.chittyId = i.chittyId
           /\ local[p].result.scope = i.scope
           /\ local[p].result.service = i.service

Revoked(r) == r = Invalid("Token has been revoked")

Valid(r) == r.kind = "validation" /\ r.valid

\* C2: a validate or refresh of a token begun after a revoke of it has returned,
\* or while its revocation marker is present, fails with "Token has been
\* revoked", whatever the cache holds for the token.
C2_RevocationFinal ==
    \A p \in Procs :
        (local[p].revokeDoneAtStart \/ local[p].markerAtStart)
        => /\ Done(p, "validate") => Revoked(local[p].result)
           /\ Done(p, "refresh") => /\ Revoked(local[p].validation)
                                    /\ local[p].result.kind = "failure"
                                    /\ local[p].result.error = "Token has been revoked"

\* A validate begun after the revoke returned, with the cache entry present again
C2_Witness ==
    \E p \in Procs :
        /\ Done(p, "validate")
        /\ local[p].revokeDoneAtStart
        /\ local[p].cacheAtStart
        /\ Revoked(local[p].result)

\* C3: no validate begun when the token's row has revoked_at set returns
\* valid:true.
C3_RevokedTerminal ==
    \A p \in Procs :
        (Done(p, "validate") /\ local[p].revokedAtStart) => ~Valid(local[p].result)

Marker(h) == JSONParse(KVGet(kvRevoked, h))

\* C4: once a row has revoked_at set, no step changes its revoked_at or its
\* revocation_reason, nor the revokedAt and reason of its revocation marker.
C4_FirstRevocationKept ==
    [][\A id \in DOMAIN db :
          db[id].revoked_at # NullInt
          => /\ db'[id].revoked_at = db[id].revoked_at
             /\ db'[id].revocation_reason = db[id].revocation_reason
             /\ KVHas(kvRevoked, db[id].token_hash)
                => /\ KVHas(kvRevoked', db[id].token_hash)
                   /\ JSONParse(KVGet(kvRevoked', db[id].token_hash))
                        = Marker(db[id].token_hash)]_vars

\* C5: a revoke of an id that no row has returns success and has written no
\* row, no cache entry and no revocation marker.
C5_RevokeUnknown ==
    \A p \in Procs :
        (Done(p, "revoke") /\ local[p].tokenId \notin DOMAIN db)
        => /\ local[p].result = RevokeResult(local[p])
           /\ local[p].result.success
           /\ ~local[p].mutated

\* A revoke of an unknown id returned while rows, cache entries exist
C5_Witness ==
    \E p \in Procs :
        /\ Done(p, "revoke")
        /\ local[p].tokenId = UnknownId
        /\ local[p].result.success
        /\ DOMAIN db # {}
        /\ DOMAIN kvTokens # {}

IdOf(token) == token.tokenId

\* C6: for every replacement made by a refresh, a validate of the old token
\* fails with "Token has been revoked" or "Token not found", a validate of the
\* new token begun before its expiry and any revoke of it returns valid:true,
\* and the two tokens differ in id and in string.
C6_RefreshReplaces ==
    \A pr \in refreshed :
        /\ pr[1] # pr[2]
        /\ db[pr[1]].token_hash # db[pr[2]].token_hash
        /\ \A i \in issued : i.tokenId = pr[2] =>
              \A j \in issued : j.tokenId = pr[1] => i.token # j.token
        /\ \A p \in Procs :
              Done(p, "validate") =>
                /\ IdOf(local[p].token) = pr[1]
                   => local[p].result \in {Invalid("Token has been revoked"),
                                           Invalid("Token not found")}
                /\ (/\ IdOf(local[p].token) = pr[2]
                    /\ ~local[p].revokedAtStart
                    /\ now < db[pr[2]].expires_at)
                   => /\ Valid(local[p].result)
                      /\ local[p].result.tokenId = pr[2]

\* A validate of the new token of a refresh returned valid:true while the old
\* token is revoked and marked
C6_Witness ==
    \E pr \in refreshed : \E p \in Procs :
        /\ Done(p, "validate")
        /\ IdOf(local[p].token) = pr[2]
        /\ Valid(local[p].result)
        /\ db[pr[1]].revoked_at # NullInt
        /\ KVHas(kvRevoked, db[pr[1]].token_hash)

\* C7: a refresh whose validate step returned valid:true returns a new token
\* whose row has the chitty_id, scope and service of the validated one.
C7_RefreshCompletes ==
    \A p \in Procs :
        (Done(p, "refresh") /\ Valid(local[p].validation))
        => /\ local[p].result.kind = "provisioned"
           /\ local[p].newTokenId \in DOMAIN db
           /\ db[local[p].newTokenId].chitty_id = local[p].validation.chittyId
           /\ JSONParse(db[local[p].newTokenId].scope) = local[p].validation.scope

\* The validate step of the refresh of caller p failed: it returned valid:false,
\* or it threw the rate limiter's error
ValidateFailed(p) ==
    \/ local[p].validation.kind = "validation" /\ ~local[p].validation.valid
    \/ local[p].result.kind = "threw" /\ local[p].validation = NoResult

FailureReason(p) ==
    IF local[p].validation = NoResult THEN local[p].result.error
    ELSE local[p].validation.error

\* C9: a refresh whose validate step failed returns a failure with the reason of
\* the validate step, has written no row, no cache entry and no revocation
\* marker, and has drawn no new token.
C9_RefreshFailsClean ==
    \A p \in Procs :
        (Done(p, "refresh") /\ ValidateFailed(p))
        => /\ local[p].result
                = [kind |-> "failure", success |-> FALSE, error |-> FailureReason(p)]
           /\ ~local[p].mutated
           /\ local[p].newTokenId = UnknownId

Active(id) == db[id].revoked_at = NullInt /\ db[id].expires_at > now

\* C8: the old and the new token of a refresh are never both active.
C8_NeverBothActive ==
    \A pr \in refreshed : ~(Active(pr[1]) /\ Active(pr[2]))

\* A refresh has inserted its replacement while another call is at an await
C8_Witness ==
    \E pr \in refreshed : \E q \in Procs :
        /\ Active(pr[2])
        /\ ~Active(pr[1])
        /\ pc[q] \notin {"idle", "done"}
        /\ local[q].op # "refresh"

\* C10: a provision with chittyId, scope or service missing throws "Missing
\* required parameters" and has written no row and no cache entry, logged no
\* audit event and drawn no token id.
C10_MissingParameters ==
    \A p \in Procs :
        (/\ Done(p, "provision")
         /\ (local[p].chittyId = NULL \/ local[p].scope = NoScope
                \/ local[p].service = NULL))
        => /\ local[p].result
                = Threw("Missing required parameters: chittyId, scope, service")
           /\ ~local[p].mutated
           /\ local[p].events = << >>
           /\ local[p].newTokenId = UnknownId

\* A provision without a service threw
C10_Witness ==
    \E p \in Procs :
        /\ Done(p, "provision")
        /\ local[p].chittyId # NULL
        /\ local[p].service = NULL
        /\ local[p].result.kind = "threw"

\* C11: no provision of an empty scope array creates a token: it throws, and no
\* row has an empty scope.
C11_NonEmptyScope ==
    /\ \A id \in DOMAIN db : JSONParse(db[id].scope) # << >>
    /\ \A p \in Procs :
          (Done(p, "provision") /\ local[p].scope = << >>)
          => local[p].result.kind = "threw"

Has(scope, s) == s \in {scope[i] : i \in DOMAIN scope}

\* The tier of a scope array by rule precedence, most privileged first
Tier(scope) ==
    CASE Has(scope, "admin:*") -> AdminLimit
      [] ~Has(scope, "admin:*") /\ Has(scope, "service:*") -> ServiceLimit
      [] /\ ~Has(scope, "admin:*") /\ ~Has(scope, "service:*")
         /\ Len(scope) > ScopeSizeThreshold -> StandardLimit
      [] OTHER -> BasicLimit

\* C17: the rate limit a provision returns, and the limit a validate counts
\* down from, is the tier of the token's scope array by rule precedence: admin
\* wildcard, then service wildcard, then size above the threshold, then basic.
C17_TierPrecedence ==
    \A p \in Procs :
        /\ (Done(p, "provision") /\ local[p].result.kind = "provisioned")
           => local[p].result.rateLimit = Tier(local[p].scope)
        /\ (Done(p, "validate") /\ Valid(local[p].result))
           => local[p].result.rateLimitRemaining
                = Tier(local[p].result.scope) - local[p].count - 1

\* A provision of a scope array with the service wildcard before the admin
\* wildcard returned the admin limit
C17_Witness ==
    \E p \in Procs :
        /\ Done(p, "provision")
        /\ local[p].scope = <<"service:*", "admin:*">>
        /\ local[p].result.kind = "provisioned"
        /\ local[p].result.rateLimit = AdminLimit

Wildcards == {"admin:*", "service:*"}

\* C18: a provision of two scopes without a wildcard returns the standard
\* limit, and one of a single scope without a wildcard the basic limit.
C18_TwoScopesStandard ==
    \A p \in Procs :
        (/\ Done(p, "provision")
         /\ local[p].result.kind = "provisioned"
         /\ \A w \in Wildcards : ~Has(local[p].scope, w))
        => /\ Len(local[p].scope) = 2 => local[p].result.rateLimit = StandardLimit
           /\ Len(local[p].scope) = 1 => local[p].result.rateLimit = BasicLimit

Expired(r) == r = Invalid("Token has expired")

\* C12: a validate of a known token that is neither revoked nor marked fails
\* with "Token has expired" exactly when now >= expiresAt.
C12_ExpiryGate ==
    \A p \in Procs : \A i \in Held(p) :
        (/\ Done(p, "validate")
         /\ ~local[p].revokedAtStart
         /\ ~local[p].markerAtStart)
        => (Expired(local[p].result) <=> now >= i.expiresAt)

FailureReasons ==
    {"Invalid token format", "Token has been revoked", "Token not found",
     "Token has expired", "Rate limit exceeded"}

\* C13: every validate returns a result object, and a failing one carries one of
\* the five reasons; none ends in an exception.
C13_StructuredFailure ==
    \A p \in Procs :
        Done(p, "validate")
        => /\ local[p].result.kind = "validation"
           /\ ~local[p].result.valid => local[p].result.error \in FailureReasons

\* One hour of the clock, in ms
WindowMs == RateWindow * 1000

WindowOf(ms) == ms \div WindowMs

\* C14: the k-th validate of a token in one window returns valid:true with
\* rateLimitRemaining = N - k while k <= N, and fails with "Rate limit exceeded"
\* when k = N + 1 (calls made one after the other, all in the first window, so
\* k is the row's request_count).
C14_RateBoundary ==
    \A p \in Procs : \A id \in DOMAIN db :
        (/\ Done(p, "validate")
         /\ IdOf(local[p].token) = id
         /\ ~local[p].revokedAtStart
         /\ now < db[id].expires_at
         /\ WindowOf(now) = WindowOf(db[id].created_at))
        => LET k == db[id].request_count
               N == Tier(JSONParse(db[id].scope))
           IN  /\ k <= N => /\ Valid(local[p].result)
                            /\ local[p].result.rateLimitRemaining = N - k
               /\ k > N => local[p].result = Invalid("Rate limit exceeded")

\* C15: two counters of one token written in the same one-hour window are one
\* counter: they have the same key.
C15_FixedWindow ==
    \A k1, k2 \in DOMAIN kvRate :
        (/\ k1[1] = k2[1]
         /\ WindowOf(kvRate[k1].at) = WindowOf(kvRate[k2].at))
        => k1 = k2

\* C19: every validate that has ended has logged one audit event,
\* token_validated when it returned valid:true and token_validation_failed
\* otherwise.
C19_ValidateAudited ==
    \A p \in Procs :
        Done(p, "validate")
        => /\ Len(local[p].events) = 1
           /\ local[p].events[1].eventType
                = IF Valid(local[p].result) THEN "token_validated"
                  ELSE "token_validation_failed"

\* The validate of caller p has passed the rate limiter: it read a count below
\* the limit
Passed(p) ==
    /\ local[p].op = "validate"
    /\ \/ pc[p] \in {"v_count", "v_ok"}
       \/ pc[p] = "done" /\ Valid(local[p].result)

\* C16: no two validates of a token pass the rate limiter on its last free
\* slot.  A counter reads N - 1 only after N - 1 validates have passed, so two
\* that pass on N - 1 make N + 1 in the window.
C16_AtMostN ==
    \A p, q \in Procs :
        (/\ p # q
         /\ Passed(p) /\ Passed(q)
         /\ local[p].rateKey = local[q].rateKey)
        => ~(/\ local[p].count = getRateLimit(local[p].tokenData.scope) - 1
             /\ local[q].count = local[p].count)

\* C20: no call ends with the error of a failed audit write: a call whose audit
\* write fails returns what it returns when the write succeeds.
C20_AuditBestEffort ==
    \A p \in Procs :
        pc[p] = "done" => local[p].result # Threw(AuditStoreError)

\* The events of type t among the events logged by the call of caller p
EventsOf(p, t) ==
    {n \in 1 .. Len(local[p].events) : local[p].events[n].eventType = t}

\* C21: a refresh that returned a new token has logged exactly one
\* token_refreshed event, and a refresh that ended otherwise has logged none.
C21_OneRefreshEvent ==
    \A p \in Procs :
        Done(p, "refresh")
        => Cardinality(EventsOf(p, "token_refreshed"))
             = IF local[p].result.kind = "provisioned" THEN 1 ELSE 0

\* A refresh returned its new token
C21_Witness ==
    \E p \in Procs :
        /\ Done(p, "refresh")
        /\ local[p].result.kind = "provisioned"
        /\ EventsOf(p, "token_refreshed") # {}

\* C22: in every deployment environment, every token provision returned has a
\* recognized prefix, and no validate of it fails with "Invalid token format".
C22_IssuedPassFormat ==
    /\ \A i \in issued : isValidTokenFormat(i.token)
    /\ \A p \in Procs :
          (Done(p, "validate") /\ local[p].given \in {i.token : i \in issued})
          => local[p].result # Invalid("Invalid token format")

\* C25: an engine constructed in production without TOKEN_SIGNING_KEY serves
\* no call: the fallback key signs nothing in production.
C25_KeyRequiredInProduction ==
    (environment = "production" /\ signingKey = FallbackKey)
    => \A p \in Procs : pc[p] = "idle"

\* The ttl the caller asked for: expiresIn when given, the default when absent
Ttl(expiresIn) == IF expiresIn = NullInt THEN DefaultTokenExpiry ELSE expiresIn

\* C26: a provision that returned a token set expiresAt to createdAt plus the
\* expiresIn it was given (0 included), or plus the default when none was given.
C26_ExpiresAt ==
    \A p \in Procs :
        (Done(p, "provision") /\ local[p].result.kind = "provisioned")
        => /\ local[p].expiresAt = local[p].createdAt + Ttl(local[p].expiresIn) * 1000
           /\ db[local[p].newTokenId].expires_at = local[p].expiresAt

InFlight(p) == pc[p] # "idle" /\ local[p].op \in {"validate", "refresh"}

\* The result r carries an error message
HasError(r) == r.kind \in {"failure", "threw"} \/ (r.kind = "validation" /\ ~r.valid)

Columns == {"id", "token_hash", "chitty_id", "scope", "service_name", "created_at",
            "expires_at", "last_used_at", "request_count", "revoked_at",
            "revocation_reason"}

Digest(h) == h[1] = "sha256"

\* C23: no tokens row, cache entry, revocation marker, rate-limit key or audit
\* event holds the plaintext token, only its digest, and the only calls whose
\* result carries a token string are provision and the provision inside refresh.
C23_NoPlaintextStored ==
    /\ \A id \in DOMAIN db :
          /\ DOMAIN db[id] = Columns
          /\ Digest(db[id].token_hash)
    /\ \A h \in DOMAIN kvTokens :
          /\ Digest(h)
          /\ DOMAIN JSONParse(kvTokens[h].val) = DOMAIN NoData
    /\ \A h \in DOMAIN kvRevoked :
          /\ Digest(h)
          /\ DOMAIN JSONParse(kvRevoked[h].val) = {"tokenId", "reason", "revokedAt"}
    /\ \A k \in DOMAIN kvRate : Digest(k[1]) /\ kvRate[k].val[1] = "str"
    /\ \A p \in Procs :
          /\ \A i \in 1 .. Len(local[p].events) :
                DOMAIN local[p].events[i] = DOMAIN Event("x", 0, "x", "x", TRUE, "x")
          /\ "token" \notin DOMAIN local[p].validation
          /\ (pc[p] = "done" /\ "token" \in DOMAIN local[p].result)
             => /\ local[p].op \in {"provision", "refresh"}
                /\ local[p].result = ProvisionResult(local[p])

\* Every store holds something of a token, and a validate has logged its event
C23_Witness ==
    /\ DOMAIN db # {}
    /\ DOMAIN kvTokens # {}
    /\ DOMAIN kvRevoked # {}
    /\ DOMAIN kvRate # {}
    /\ \E p \in Procs : Done(p, "validate") /\ Len(local[p].events) > 0

\* C24: a validate (alone or inside refresh) during which a store call failed
\* ends at that call with the store's failure: it returns no verdict, neither
\* "Token not found" nor any other valid:false result.
C24_StoreFailureSurfaces ==
    \A p \in Procs :
        local[p].failedAt # "none"
        => /\ pc[p] = "done"
           /\ local[p].result = Threw(StoreError)
           /\ local[p].validation = NoResult
           /\ \A i \in 1 .. Len(local[p].events) :
                 local[p].events[i].eventType # "token_validation_failed"

\* The lookup in the cache store failed for a token that was issued
C24_Witness ==
    \E p \in Procs :
        /\ Done(p, "validate")
        /\ local[p].failedAt = "v_cache"
        /\ Held(p) # {}
        /\ local[p].result.kind = "threw"

\* C28: two distinct tokens rows never have the same id or the same token_hash:
\* a token_hash selects at most one row, and so does the token of every caller.
C28_Unique ==
    /\ \A a \in DOMAIN db : \A b \in DOMAIN db :
          a # b => /\ db[a].id # db[b].id
                   /\ db[a].token_hash # db[b].token_hash
    /\ \A a \in DOMAIN db : Cardinality(RowOfHash(db[a].token_hash)) = 1
    /\ \A i \in issued : Cardinality(RowOfHash(hashToken(i.token))) <= 1

\* Two rows, one made by provision and one by refresh, both tokens returned
C28_Witness ==
    /\ Cardinality(DOMAIN db) = 2
    /\ Cardinality(issued) = 2
    /\ refreshed # {}

\* C29: no step lowers the request_count of a tokens row or removes the row,
\* the step at which a validate leaves updateTokenUsage's UPDATE raises the
\* request_count of its token's row by exactly one, whatever the other callers
\* do, and every validate that returns valid:true has taken that step.
C29_CountMonotonic ==
    [][/\ \A id \in DOMAIN db :
            /\ id \in DOMAIN db'
            /\ db'[id].request_count >= db[id].request_count
       /\ \A p \in Procs :
            (pc[p] = "v_usage" /\ pc'[p] # "v_usage")
            => \A id \in RowOfHash(local[p].tokenHash) :
                  db'[id].request_count = db[id].request_count + 1
       /\ \A p \in Procs :
            (pc'[p] = "done" /\ local'[p].op = "validate" /\ Valid(local'[p].result))
            => /\ local'[p].usageNow # NullInt
               /\ \E id \in RowOfHash(local'[p].tokenHash) :
                     db'[id].request_count >= 1]_vars

\* Two callers have validated one token: both returned valid:true and the row
\* counts both
C29_Witness ==
    /\ \A p \in Procs : Done(p, "validate") /\ Valid(local[p].result)
    /\ \E p \in Procs : \E q \in Procs :
          /\ p # q
          /\ local[p].token = local[q].token
          /\ \E id \in RowOfHash(local[p].tokenHash) : db[id].request_count = 2

\* C30: a validate that returns valid:true from the tokens row, after a cache
\* miss, returns what a validate served from the cache returns: the tokenId,
\* chittyId, scope, service and expiresAt the token was provisioned with.
C30_SlowEqualsFast ==
    \A p \in Procs : \A i \in Held(p) :
        (Done(p, "validate") /\ Valid(local[p].result) /\ ~local[p].fromCache)
        => /\ local[p].result.tokenId = i.tokenId
           /\ local[p].result.chittyId = i.chittyId
           /\ local[p].result.scope = i.scope
           /\ local[p].result.service = i.service
           /\ local[p].result.expiresAt = toISOString(i.expiresAt)

\* C31: a tokens row has revocation_reason set exactly when it has revoked_at
\* set: a revoke of an existing token writes both, the reason as the caller
\* gave it.
C31_ReasonWithRevokedAt ==
    \A id \in DOMAIN db :
        /\ (db[id].revoked_at # NullInt) <=> (db[id].revocation_reason # NULL)
        /\ \A p \in Procs :
             (Done(p, "revoke") /\ local[p].tokenId = id)
             => db[id].revocation_reason = local[p].reason

\* C32: a validate that returns valid:false ("Invalid token format", "Token has
\* been revoked", "Token not found" or "Token has expired") has written no
\* tokens row, no cache entry, no revocation marker and no rate-limit counter.
C32_FailureWritesNothing ==
    \A p \in Procs :
        (/\ Done(p, "validate")
         /\ local[p].result.kind = "validation"
         /\ ~local[p].result.valid)
        => /\ local[p].result.error \in FailureReasons \ {"Rate limit exceeded"}
           /\ ~local[p].mutated
           /\ ~local[p].counted
           /\ local[p].usageNow = NullInt

\* A validate of an issued token whose row is there has failed as expired
C32_Witness ==
    \E p \in Procs :
        /\ Done(p, "validate")
        /\ local[p].result = Invalid("Token has expired")
        /\ RowOfHash(local[p].tokenHash) # {}
        /\ Held(p) # {}

\* The columns updateTokenUsage writes and the columns of a revocation
UsageColumns == {"last_used_at", "request_count"}

RevocationColumns == {"revoked_at", "revocation_reason"}

\* Rows r and s agree outside the columns cols
SameBut(r, s, cols) == \A c \in Columns \ cols : r[c] = s[c]

\* The awaits of validate and of revoke
ValidateAwaits == StoreAwaits \cup {"v_fail", "v_ok"}

RevokeAwaits == {"r_update", "r_select", "r_marker", "r_delete", "r_audit"}

\* C33: a tokens row appears only at the INSERT of provision; no step removes a
\* row or changes its id, token_hash, chitty_id, scope, created_at or
\* expires_at; a step of validate changes at most last_used_at and
\* request_count, a step of revoke at most revoked_at and revocation_reason, and
\* a step of provision changes no existing row.
C33_RecordFrame ==
    [][/\ \A id \in DOMAIN db :
            /\ id \in DOMAIN db'
            /\ SameBut(db[id], db'[id], UsageColumns \cup RevocationColumns)
       /\ \A id \in DOMAIN db' \ DOMAIN db :
            \E p \in Procs : /\ pc[p] = "p_insert"
                             /\ pc'[p] = "p_cache"
                             /\ local[p].newTokenId = id
       /\ \A p \in Procs : \A id \in DOMAIN db :
            /\ (pc'[p] # pc[p] /\ pc[p] \in ValidateAwaits)
               => SameBut(db[id], db'[id], UsageColumns)
            /\ (pc'[p] # pc[p] /\ pc[p] \in RevokeAwaits)
               => SameBut(db[id], db'[id], RevocationColumns)
            /\ (pc'[p] # pc[p] /\ pc[p] \notin ValidateAwaits \cup RevokeAwaits)
               => db'[id] = db[id]]_vars

\* A row that was validated and then revoked, next to the row of its replacement
C33_Witness ==
    /\ Cardinality(DOMAIN db) = 2
    /\ \E id \in DOMAIN db : /\ db[id].request_count > 0
                             /\ db[id].last_used_at # NullInt
                             /\ db[id].revoked_at # NullInt

RateLimited(r) == r = Threw("Rate limit exceeded")

\* C34: validate runs updateTokenUsage before checkRateLimit: the step that
\* leaves the UPDATE adds one to the request_count of the token's row and sets
\* its last_used_at, and the step at which checkRateLimit rejects the call
\* writes no rate-limit counter, so a validate rejected at the limit has updated
\* the row and has not counted itself.
C34_UsageBeforeRate ==
    [][\A p \in Procs :
          /\ (pc[p] = "v_usage" /\ pc'[p] # "v_usage")
             => \A id \in RowOfHash(local[p].tokenHash) :
                   /\ db'[id].request_count = db[id].request_count + 1
                   /\ db'[id].last_used_at = local[p].usageNow
          /\ (pc[p] = "v_rate" /\ pc'[p] = "done")
             => /\ RateLimited(local'[p].result)
                /\ kvRate' = kvRate
                /\ db' = db
                /\ local'[p].mutated
                /\ ~local'[p].counted
                /\ local'[p].usageNow # NullInt]_vars

\* A validate has been rejected at the limit after it updated the row
C34_Witness ==
    \E p \in Procs :
        /\ Done(p, "validate")
        /\ RateLimited(local[p].result)
        /\ local[p].mutated
        /\ \E id \in RowOfHash(local[p].tokenHash) :
              /\ db[id].request_count > BasicLimit
              /\ db[id].last_used_at = local[p].usageNow

\* The limit of the tier of the token with hash h
LimitOf(h) == {getRateLimit(JSONParse(db[id].scope)) : id \in RowOfHash(h)}

\* C35: the count stored under a rate-limit key never exceeds the limit of the
\* token's tier, however the validates of the token interleave.
C35_CounterBounded ==
    \A k \in DOMAIN kvRate : \A n \in LimitOf(k[1]) : parseInt(kvRate[k].val) <= n

\* The counter stands at the limit while a concurrent validate, which read the
\* count before that write, is about to write its own
C35_Witness ==
    /\ \E k \in DOMAIN kvRate : \E n \in LimitOf(k[1]) : parseInt(kvRate[k].val) = n
    /\ \E p \in Procs : /\ pc[p] = "v_count"
                         /\ local[p].count + 1 \in LimitOf(local[p].tokenHash)

\* C36: when a validate of a token that has not reached its expiry missed the
\* cache, found the row and returned valid:true, the cache holds an entry for
\* the token's hash again.
C36_Repopulated ==
    \A p \in Procs :
        (/\ Done(p, "validate")
         /\ Valid(local[p].result)
         /\ ~local[p].fromCache
         /\ now < local[p].tokenData.expiresAt)
        => KVHas(kvTokens, local[p].tokenHash)

\* C37: revoke writes revoked_at, then the revocation marker, then deletes the
\* cache entry: whenever a marker is stored its token's row has revoked_at set,
\* a revoke about to write the marker has written revoked_at, and a revoke about
\* to delete the cache entry has written the marker.
C37_RevokeOrder ==
    /\ \A h \in DOMAIN kvRevoked :
          /\ RowOfHash(h) # {}
          /\ \A id \in RowOfHash(h) : db[id].revoked_at # NullInt
    /\ \A p \in Procs :
          /\ pc[p] = "r_marker"
             => \A id \in RowOfHash(local[p].tokenHash) : db[id].revoked_at # NullInt
          /\ pc[p] = "r_delete" => KVHas(kvRevoked, local[p].tokenHash)

\* A revoke stands between its marker and its delete: the row is revoked, the
\* marker is there and the cache entry still is
C37_Witness ==
    \E p \in Procs :
        /\ pc[p] = "r_delete"
        /\ KVHas(kvRevoked, local[p].tokenHash)
        /\ KVHas(kvTokens, local[p].tokenHash)
        /\ \E id \in RowOfHash(local[p].tokenHash) : db[id].revoked_at # NullInt

\* C38: provision inserts the row before it writes the cache entry: every cache
\* entry is keyed by the token_hash of a tokens row, and a provision about to
\* write the cache entry has inserted its row.
C38_ProvisionOrder ==
    /\ \A h \in DOMAIN kvTokens :
          /\ RowOfHash(h) # {}
          /\ \A id \in RowOfHash(h) : JSONParse(kvTokens[h].val).tokenId = id
    /\ \A p \in Procs :
          pc[p] = "p_cache" => RowOfHash(hashToken(local[p].newToken)) = {local[p].newTokenId}

\* A provision has just written the cache entry of the row it inserted
C38_Witness ==
    \E p \in Procs :
        /\ pc[p] = "p_audit"
        /\ KVHas(kvTokens, hashToken(local[p].newToken))
        /\ RowOfHash(hashToken(local[p].newToken)) = {local[p].newTokenId}

\* C39: once a revoke of a token and the validates that ran beside it have all
\* returned, the cache holds no entry for the revoked token.
C39_NoCacheAfterRevoke ==
    (\A p \in Procs : pc[p] \in {"idle", "done"})
    => \A id \in revokedDone : ~KVHas(kvTokens, db[id].token_hash)

\* The refresh calls that have ended with a new token in exchange for token t
Exchanged(t) ==
    {p \in Procs : /\ Done(p, "refresh")
                   /\ local[p].result.kind = "provisioned"
                   /\ local[p].validation.tokenId = t}

\* C40: of the refresh calls made with one token at most one ends with a new
\* token: one old token is replaced by at most one new token.
C40_OneReplacement ==
    \A t \in DOMAIN db : Cardinality(Exchanged(t)) <= 1

====
